---- MODULE Spec2Model ----
(***************************************************************************)
(* Model of alarm_cond.c: a main thread (the Dispatcher) that reads        *)
(* command lines and inserts alarm requests into the shared list           *)
(* alarm_list, and one alarm thread (the Worker) that waits on the         *)
(* condition variable alarm_cond for the earliest request.                 *)
(*                                                                         *)
(* Alarms are identified by the order in which the main thread passes them *)
(* to alarm_insert: alarm number i is alarms[i].  The linked list          *)
(* alarm_list is the sequence of the identifiers met by following link     *)
(* from the list header.                                                   *)
(***************************************************************************)
EXTENDS Integers, Sequences, FiniteSets, TLC

(* ------------------------------ bounds --------------------------------- *)

\* Number of alarms the main thread passes to alarm_insert in one run.
MaxAlarms == 3
\* Number of control requests (types B to E) held in memory at one time.
MaxControl == 1
\* Largest number of seconds a Schedule line asks for.
MaxDelay == 1
\* The clock runs from StartTime to StartTime + MaxTicks.
MaxTicks == 1
\* Largest message type / message number on a line.
MaxId == 2

\* time(NULL) when the program starts (any value well above the delays).
StartTime == 2

Delays == 0 .. MaxDelay
Ids == 1 .. MaxId

\* An int read from malloc'ed memory that was never assigned: any value.
\* The model draws it from the delays and one negative value.
GarbageSeconds == (0 - 1) .. MaxDelay

ControlKinds == {"B", "C", "D", "E"}

\* No alarm (a NULL pointer).
NULL == 0

(* ------------------------------ state ---------------------------------- *)

VARIABLES
    alarms,         \* the alarm_t structures passed to alarm_insert so far
    alarm_list,     \* the list: identifiers from the header along link
    current_alarm,  \* the time the alarm thread is waiting for, or 0
    now,            \* time(NULL)
    mutex,          \* owner of alarm_mutex: "free", "main" or "worker"
    wpc,            \* where the alarm thread is
    walarm,         \* the alarm thread's local `alarm` (NULL when it holds none)
    wstatus,        \* status returned by the last pthread_cond_timedwait
    output,         \* identifiers printed ("(%d) %s") and freed, in order
    mpc,            \* where the main thread is
    malarm,         \* the main thread's local `alarm` structure
    mnext,          \* the main thread's local `next` in a validation loop
    shouldProceed,  \* the main thread's local `shouldProceed`
    diag,           \* what the main thread printed about the last line read
    replaced,       \* triples <<old, new, type of new>>: alarm_insert took the
                    \* replacement branch for `new` on meeting the listed
                    \* alarm `old`
    idleInserted,   \* the alarms the main thread inserted into an empty list
                    \* while the alarm thread was idle (current_alarm = 0 and
                    \* the thread in pthread_cond_wait)
    preempts        \* pairs <<first, second>>: the main thread inserted the
                    \* type A alarm `second` while the alarm thread was in
                    \* its timed wait on the type A alarm `first`, which has
                    \* another message number and a later time

vars == <<alarms, alarm_list, current_alarm, now, mutex, wpc, walarm, wstatus,
          output, mpc, malarm, mnext, shouldProceed, diag, replaced,
          idleInserted, preempts>>

mainVars == <<mpc, malarm, mnext, shouldProceed, diag>>
workerVars == <<wpc, walarm, wstatus, output>>

NoAlarm == [type |-> "none", seconds |-> 0, messageType |-> 0,
            messageNumber |-> 0, time |-> 0]

(* ----------------------------- helpers --------------------------------- *)

Range(s) == {s[i] : i \in 1 .. Len(s)}

\* The alarms that have been freed by the alarm thread.
Freed == Range(output)

\* The list with x linked in before position i (x becomes element i).
InsertBefore(list, i, x) ==
    SubSeq(list, 1, i - 1) \o <<x>> \o SubSeq(list, i, Len(list))

(* --------------------------- alarm_insert ------------------------------ *)

\* A replacement test that forgets the message number: what
\* C19_PreemptionOrder rules out.
C19_Mutant_SameMessage(n, a) == n.type = "A"

\* Line 60: the listed alarm `n` is a type A request with the message number
\* of the alarm being inserted.
SameMessage(n, a) == n.type = "A" /\ n.messageNumber = a.messageNumber

\* A slip in line 66: the comparison turned round.
C1_Mutant_NotEarlier(n, a) == n.time <= a.time

\* Line 66: the listed alarm `n` is not due before the alarm being inserted.
NotEarlier(n, a) == n.time >= a.time

\* Lines 56-85: the scan of alarm_insert from position i of the list.  The
\* result is the list after the call and the listed alarm on which the
\* replacement branch was taken (NULL when it was not).  In the replacement
\* branch (lines 60-65) the code sets alarm->link and the local `next` and
\* leaves the loop: no link of the list is written, and because `next` is
\* not NULL the append of lines 81-85 is skipped as well.
RECURSIVE Scan(_, _, _, _)
Scan(list, recs, a, i) ==
    IF i > Len(list)
    THEN [list |-> Append(list, a), old |-> NULL]
    ELSE IF SameMessage(recs[list[i]], recs[a])
         THEN [list |-> list, old |-> list[i]]
         ELSE IF NotEarlier(recs[list[i]], recs[a])
              THEN [list |-> InsertBefore(list, i, a), old |-> NULL]
              ELSE Scan(list, recs, a, i + 1)

\* A wake decision that wakes only the idle thread, never for an earlier
\* alarm: what C23_MarkerLowerBound rules out.
C23_Mutant_NeedsWake(cur, t) == cur = 0

\* A wake decision that also wakes for an alarm due exactly at the time
\* waited for: what C18_WakeDecision rules out.
C18_Mutant_NeedsWake(cur, t) == cur = 0 \/ t <= cur

\* Line 99: the alarm thread must be woken for an alarm due at t.
NeedsWake(cur, t) == cur = 0 \/ t < cur

\* Line 102: pthread_cond_signal unblocks the alarm thread if it is blocked
\* on alarm_cond; otherwise the signal has no effect.
CondSignal(pc) ==
    CASE pc = "cond_wait" -> "cond_woken"
      [] pc = "timed_wait" -> "timed_woken"
      [] OTHER -> pc

\* alarm_insert(a), lines 45-106, on the list and current_alarm; recs holds
\* the structures, a's among them.  The effect of the signal on the alarm
\* thread is stated by the caller (WakeWorker or no effect).  After the
\* replacement branch no pointer to the structure a is left anywhere: the
\* model forgets its contents.
AlarmInsert(a, recs) ==
    LET r == Scan(alarm_list, recs, a, 1) IN
    /\ alarm_list' = r.list
    /\ alarms' = IF r.old # NULL THEN [recs EXCEPT ![a] = NoAlarm] ELSE recs
    /\ replaced' = IF r.old # NULL THEN replaced \cup {<<r.old, a, recs[a].type>>} ELSE replaced
    /\ current_alarm' = IF NeedsWake(current_alarm, recs[a].time)
                        THEN recs[a].time ELSE current_alarm

\* The alarm thread after an alarm_insert by the main thread for time t.
WakeWorker(t) ==
    IF NeedsWake(current_alarm, t)
    THEN /\ wpc' = CondSignal(wpc)
         /\ wstatus' = IF wpc = "timed_wait" THEN "ok" ELSE wstatus
    ELSE UNCHANGED <<wpc, wstatus>>

(* --------------------------- alarm_thread ------------------------------ *)

\* Line 124: the alarm thread locks the mutex before its loop.
W_Lock ==
    /\ wpc = "start"
    /\ mutex = "free"
    /\ mutex' = "worker"
    /\ wpc' = "top"
    /\ UNCHANGED <<alarms, alarm_list, current_alarm, now, walarm, wstatus,
                   output, mainVars, replaced, idleInserted, preempts>>

\* An alarm thread that blocks on the empty list without clearing
\* current_alarm: what C17_MarkerMeaning rules out.
C17_Mutant_W_Idle ==
    /\ wpc = "top"
    /\ alarm_list = <<>>
    /\ wpc' = "cond_wait"
    /\ mutex' = "free"
    /\ UNCHANGED <<alarms, alarm_list, current_alarm, now, walarm, wstatus,
                   output, mainVars, replaced, idleInserted, preempts>>

\* Lines 134-137: at the top of the loop with an empty list the thread
\* clears current_alarm and blocks in pthread_cond_wait, releasing the mutex.
W_Idle ==
    /\ wpc = "top"
    /\ alarm_list = <<>>
    /\ current_alarm' = 0
    /\ wpc' = "cond_wait"
    /\ mutex' = "free"
    /\ UNCHANGED <<alarms, alarm_list, now, walarm, wstatus, output, mainVars,
                   replaced, idleInserted, preempts>>

\* Lines 134-170: at the top of the loop with a non-empty list.
W_Pop ==
    /\ wpc = "top"
    /\ alarm_list # <<>>
    /\ LET a == Head(alarm_list) IN
       /\ walarm' = a
       /\ alarm_list' = Tail(alarm_list)
       /\ IF alarms[a].time > now
          THEN /\ current_alarm' = alarms[a].time
               /\ wpc' = "timed_wait"
               /\ mutex' = "free"
          ELSE /\ current_alarm' = 0
               /\ wpc' = "fire"
               /\ mutex' = "worker"
    /\ UNCHANGED <<alarms, now, wstatus, output, mainVars, replaced, idleInserted, preempts>>

\* Lines 135-140: pthread_cond_wait returns (the mutex is locked again) and
\* the list is still empty: wait again.
W_CondRewait ==
    /\ wpc = "cond_woken"
    /\ mutex = "free"
    /\ alarm_list = <<>>
    /\ wpc' = "cond_wait"
    /\ UNCHANGED <<alarms, alarm_list, current_alarm, now, mutex, walarm,
                   wstatus, output, mainVars, replaced, idleInserted, preempts>>

\* Lines 135-170: pthread_cond_wait returns and the list is not empty.
\* current_alarm keeps the value alarm_insert gave it unless the thread
\* starts a timed wait.
W_CondPop ==
    /\ wpc = "cond_woken"
    /\ mutex = "free"
    /\ alarm_list # <<>>
    /\ LET a == Head(alarm_list) IN
       /\ walarm' = a
       /\ alarm_list' = Tail(alarm_list)
       /\ IF alarms[a].time > now
          THEN /\ current_alarm' = alarms[a].time
               /\ wpc' = "timed_wait"
               /\ mutex' = "free"
          ELSE /\ current_alarm' = current_alarm
               /\ wpc' = "fire"
               /\ mutex' = "worker"
    /\ UNCHANGED <<alarms, now, wstatus, output, mainVars, replaced, idleInserted, preempts>>

\* Lines 156-162: the absolute time of the timed wait has passed before the
\* condition was signalled: pthread_cond_timedwait will return ETIMEDOUT.
W_Timeout ==
    /\ wpc = "timed_wait"
    /\ now >= alarms[walarm].time
    /\ wpc' = "timed_woken"
    /\ wstatus' = "ETIMEDOUT"
    /\ UNCHANGED <<alarms, alarm_list, current_alarm, now, mutex, walarm,
                   output, mainVars, replaced, idleInserted, preempts>>

\* A condition wait may return without a signal (a spurious wakeup).
W_Spurious ==
    /\ wpc \in {"cond_wait", "timed_wait"}
    /\ wpc' = CondSignal(wpc)
    /\ wstatus' = IF wpc = "timed_wait" THEN "ok" ELSE wstatus
    /\ UNCHANGED <<alarms, alarm_list, current_alarm, now, mutex, walarm,
                   output, mainVars, replaced, idleInserted, preempts>>

\* A thread that takes every return of the timed wait for a timeout: what
\* C22_NoEarlyFire rules out.
C22_Mutant_W_Expired ==
    /\ wpc = "timed_woken"
    /\ mutex = "free"
    /\ mutex' = "worker"
    /\ wpc' = "fire"
    /\ wstatus' = "ok"
    /\ UNCHANGED <<alarms, alarm_list, current_alarm, now, walarm, output,
                   mainVars, replaced, idleInserted, preempts>>

\* Lines 158-162 and 171: the timed wait returned ETIMEDOUT.  `status` is
\* not read again before the next wait assigns it: the model keeps it "ok"
\* outside "timed_woken".
W_Expired ==
    /\ wpc = "timed_woken"
    /\ mutex = "free"
    /\ wstatus = "ETIMEDOUT"
    /\ mutex' = "worker"
    /\ wpc' = "fire"
    /\ wstatus' = "ok"
    /\ UNCHANGED <<alarms, alarm_list, current_alarm, now, walarm, output,
                   mainVars, replaced, idleInserted, preempts>>

\* Lines 154-157: the timed wait returned 0 and current_alarm is still the
\* time of the held alarm: wait again with the same absolute time.
W_Rewait ==
    /\ wpc = "timed_woken"
    /\ mutex = "free"
    /\ wstatus = "ok"
    /\ current_alarm = alarms[walarm].time
    /\ wpc' = "timed_wait"
    /\ UNCHANGED <<alarms, alarm_list, current_alarm, now, mutex, walarm,
                   wstatus, output, mainVars, replaced, idleInserted, preempts>>

\* A thread that puts the held alarm back after every return of the timed
\* wait without a timeout: what C24_SpuriousWake rules out.
C24_Mutant_W_Requeue ==
    /\ wpc = "timed_woken"
    /\ mutex = "free"
    /\ wstatus = "ok"
    /\ AlarmInsert(walarm, alarms)
    /\ mutex' = "worker"
    /\ wpc' = "top"
    /\ walarm' = NULL
    /\ UNCHANGED <<now, wstatus, output, mainVars, idleInserted, preempts>>

\* Lines 154 and 166-167: the timed wait returned 0 and current_alarm is no
\* longer the time of the held alarm: put the alarm back with alarm_insert.
W_Requeue ==
    /\ wpc = "timed_woken"
    /\ mutex = "free"
    /\ wstatus = "ok"
    /\ current_alarm # alarms[walarm].time
    /\ AlarmInsert(walarm, alarms)
    /\ mutex' = "worker"
    /\ wpc' = "top"
    /\ walarm' = NULL
    /\ UNCHANGED <<now, wstatus, output, mainVars, idleInserted, preempts>>

\* Lines 171-175: print the alarm and free it.  The freed structure no
\* longer holds the request.
W_Fire ==
    /\ wpc = "fire"
    /\ output' = Append(output, walarm)
    /\ alarms' = [alarms EXCEPT ![walarm] = NoAlarm]
    /\ walarm' = NULL
    /\ wpc' = "top"
    /\ UNCHANGED <<alarm_list, current_alarm, now, mutex, wstatus, mainVars,
                   replaced, idleInserted, preempts>>

Worker ==
    \/ W_Lock \/ W_Idle \/ W_Pop \/ W_CondRewait \/ W_CondPop \/ W_Timeout
    \/ W_Spurious \/ W_Expired \/ W_Rewait \/ W_Requeue \/ W_Fire

(* -------------------------------- main --------------------------------- *)

\* What a line starts with, as typeFinder tells lines apart.
Heads == {"digit", "Create_Thread", "Cancel", "Pause_Thread", "Resume_Thread",
          "other"}

\* Lines 179-247.
typeFinder(head) ==
    CASE head = "digit" -> "A"
      [] head = "Create_Thread" -> "B"
      [] head = "Cancel" -> "C"
      [] head = "Pause_Thread" -> "D"
      [] head = "Resume_Thread" -> "E"
      [] OTHER -> "F"

\* Lines 273-284: a line that starts with a digit and on which sscanf makes
\* all four conversions: the request is built and the mutex is asked for.
M_Schedule(s, mt, mn) ==
    /\ mpc = "read"
    /\ typeFinder("digit") = "A"
    /\ Len(alarms) < MaxAlarms
    /\ malarm' = [type |-> "A", seconds |-> s, messageType |-> mt,
                  messageNumber |-> mn, time |-> 0]
    /\ mpc' = "lock"
    /\ diag' = "none"
    /\ UNCHANGED <<alarms, alarm_list, current_alarm, now, mutex, workerVars,
                   mnext, shouldProceed, replaced, idleInserted, preempts>>

\* Lines 277-281: a line that starts with a digit on which sscanf makes
\* fewer than four conversions.
M_BadSchedule ==
    /\ mpc = "read"
    /\ typeFinder("digit") = "A"
    /\ diag' = "Bad command"
    /\ UNCHANGED <<alarms, alarm_list, current_alarm, now, mutex, workerVars,
                   mpc, malarm, mnext, shouldProceed, replaced, idleInserted, preempts>>

\* Lines 458-460: a line typeFinder does not know.
M_Unknown ==
    /\ mpc = "read"
    /\ typeFinder("other") = "F"
    /\ diag' = "bad command"
    /\ UNCHANGED <<alarms, alarm_list, current_alarm, now, mutex, workerVars,
                   mpc, malarm, mnext, shouldProceed, replaced, idleInserted, preempts>>

\* Lines 296, 336, 377, 418: a control line on which sscanf makes its
\* conversion (it returns 1): the body of the `if (sscanf(...) < 1)` is
\* skipped, nothing is printed and nothing is inserted.
M_ControlParsed(head) ==
    /\ mpc = "read"
    /\ typeFinder(head) \in ControlKinds
    /\ UNCHANGED vars

\* Lines 296-303, 336-343, 377-384, 418-425: a control line on which sscanf
\* makes no conversion (it returns less than 1).  Only alarm->type is
\* assigned; seconds, messageType and messageNumber keep what malloc
\* returned.  The first validation loop starts from the list header, read
\* without the mutex.
M_Control(head, s, mt, mn) ==
    /\ mpc = "read"
    /\ typeFinder(head) \in ControlKinds
    /\ Len(alarms) < MaxAlarms
    /\ Cardinality({i \in 1 .. Len(alarms) : alarms[i].type \in ControlKinds})
          < MaxControl
    /\ malarm' = [type |-> typeFinder(head), seconds |-> s, messageType |-> mt,
                  messageNumber |-> mn, time |-> 0]
    /\ shouldProceed' = TRUE
    /\ mnext' = IF alarm_list = <<>> THEN NULL ELSE Head(alarm_list)
    /\ mpc' = "loop1"
    /\ diag' = "none"
    /\ UNCHANGED <<alarms, alarm_list, current_alarm, now, mutex, workerVars,
                   replaced, idleInserted, preempts>>

\* The condition of the first validation loop (lines 305, 345, 386, 427).
Loop1Test(a, n) ==
    CASE a.type = "B" -> n.type = "A" /\ n.messageType # a.messageType
      [] a.type = "C" -> n.type = "A" /\ n.messageNumber # a.messageNumber
      [] a.type = "D" -> n.type = "A" /\ n.messageType # a.messageType
      [] a.type = "E" -> n.type = "D" /\ n.messageType # a.messageType

\* The condition of the second validation loop (lines 314, 354, 395, 436).
Loop2Test(a, n) ==
    CASE a.type = "B" -> n.type = "B" /\ n.messageType = a.messageType
      [] a.type = "C" -> n.type = "B" /\ n.messageNumber = a.messageNumber
      [] a.type = "D" -> n.type = "B" /\ n.messageNumber = a.messageNumber
      [] a.type = "E" -> n.type = "E" /\ n.messageNumber = a.messageNumber

\* What a validation loop reads through `next`: the outcome v of the test on
\* the structure, or either outcome when the alarm thread has freed the
\* structure (line 174) since `next` was read.
MayHit(v) == mnext \in Freed \/ v
MayMiss(v) == mnext \in Freed \/ ~v

\* Lines 304-312 (and 344-352, 385-393, 426-434): the first loop ends, on a
\* NULL `next` or on its break with shouldProceed false; `next` is read
\* again from the list header for the second loop.
M_Loop1End ==
    /\ mpc \in {"loop1", "spin1"}
    /\ \/ mnext = NULL /\ UNCHANGED shouldProceed
       \/ mnext # NULL /\ MayHit(Loop1Test(malarm, alarms[mnext])) /\ shouldProceed' = FALSE
    /\ mnext' = IF alarm_list = <<>> THEN NULL ELSE Head(alarm_list)
    /\ mpc' = "loop2"
    /\ UNCHANGED <<alarms, alarm_list, current_alarm, now, mutex, workerVars,
                   malarm, diag, replaced, idleInserted, preempts>>

\* Lines 304-310: the test fails on a `next` that is not NULL.  The loop
\* does not advance `next`: it tests the same structure again.
M_Loop1Spin ==
    /\ mpc \in {"loop1", "spin1"}
    /\ mnext # NULL
    /\ MayMiss(Loop1Test(malarm, alarms[mnext]))
    /\ mpc' = "spin1"
    /\ UNCHANGED <<alarms, alarm_list, current_alarm, now, mutex, workerVars,
                   malarm, mnext, shouldProceed, diag, replaced, idleInserted, preempts>>

\* A rejection that also clears the alarm thread's wait time: what
\* C14_RejectionFrame rules out.
C14_Mutant_M_Reject ==
    /\ mpc \in {"loop2", "spin2"}
    /\ \/ mnext = NULL /\ ~shouldProceed
       \/ mnext # NULL /\ MayHit(Loop2Test(malarm, alarms[mnext]))
    /\ diag' = "rejected"
    /\ malarm' = NoAlarm
    /\ mnext' = NULL
    /\ shouldProceed' = FALSE
    /\ mpc' = "read"
    /\ current_alarm' = 0
    /\ UNCHANGED <<alarms, alarm_list, now, mutex, workerVars,
                   replaced, idleInserted, preempts>>

\* Lines 313-332: the second loop ends and shouldProceed is false: the
\* request is freed.
M_Reject ==
    /\ mpc \in {"loop2", "spin2"}
    /\ \/ mnext = NULL /\ ~shouldProceed
       \/ mnext # NULL /\ MayHit(Loop2Test(malarm, alarms[mnext]))
    /\ diag' = "rejected"
    /\ malarm' = NoAlarm
    /\ mnext' = NULL
    /\ shouldProceed' = FALSE
    /\ mpc' = "read"
    /\ UNCHANGED <<alarms, alarm_list, current_alarm, now, mutex, workerVars,
                   replaced, idleInserted, preempts>>

\* Lines 313-321: the second loop ends on a NULL `next` and shouldProceed is
\* true: the mutex is asked for.
M_Accept ==
    /\ mpc \in {"loop2", "spin2"}
    /\ mnext = NULL
    /\ shouldProceed
    /\ mpc' = "lock"
    /\ UNCHANGED <<alarms, alarm_list, current_alarm, now, mutex, workerVars,
                   malarm, mnext, shouldProceed, diag, replaced, idleInserted, preempts>>

\* Lines 313-319: the test of the second loop fails on a `next` that is not
\* NULL; the loop tests the same structure again.
M_Loop2Spin ==
    /\ mpc \in {"loop2", "spin2"}
    /\ mnext # NULL
    /\ MayMiss(Loop2Test(malarm, alarms[mnext]))
    /\ mpc' = "spin2"
    /\ UNCHANGED <<alarms, alarm_list, current_alarm, now, mutex, workerVars,
                   malarm, mnext, shouldProceed, diag, replaced, idleInserted, preempts>>

\* Lines 285, 321, 361, 402, 443: pthread_mutex_lock.
M_Lock ==
    /\ mpc = "lock"
    /\ mutex = "free"
    /\ mutex' = "main"
    /\ mpc' = "locked"
    /\ UNCHANGED <<alarms, alarm_list, current_alarm, now, workerVars, malarm,
                   mnext, shouldProceed, diag, replaced, idleInserted, preempts>>

\* Lines 288-292 (and 324-328, 364-368, 405-409, 446-450): the expiry time
\* is set from the clock, the alarm is passed to alarm_insert and the mutex
\* is unlocked.
M_Insert ==
    /\ mpc = "locked"
    /\ LET rec == [malarm EXCEPT !.time = now + malarm.seconds]
           recs == Append(alarms, rec)
       IN /\ AlarmInsert(Len(recs), recs)
          /\ WakeWorker(rec.time)
          /\ idleInserted' =
                IF /\ alarm_list = <<>>
                   /\ current_alarm = 0
                   /\ wpc \in {"cond_wait", "cond_woken"}
                   /\ alarm_list' = <<Len(recs)>>
                THEN idleInserted \cup {Len(recs)} ELSE idleInserted
          /\ preempts' =
                IF /\ wpc = "timed_wait"
                   /\ alarms[walarm].type = "A"
                   /\ rec.type = "A"
                   /\ rec.messageNumber # alarms[walarm].messageNumber
                   /\ rec.time < alarms[walarm].time
                THEN preempts \cup {<<walarm, Len(recs)>>} ELSE preempts
    /\ mutex' = "free"
    /\ mpc' = "read"
    /\ malarm' = NoAlarm
    /\ mnext' = NULL
    /\ shouldProceed' = FALSE
    /\ UNCHANGED <<now, walarm, output, diag>>

\* The loop of lines 260-487.  An empty line (line 265) changes nothing; the
\* end of the input (line 263) ends the process and is left out.
Main ==
    \/ \E s \in Delays, mt \in Ids, mn \in Ids : M_Schedule(s, mt, mn)
    \/ M_BadSchedule
    \/ M_Unknown
    \/ \E h \in Heads : M_ControlParsed(h)
    \/ \E h \in Heads, s \in GarbageSeconds, mt \in Ids, mn \in Ids :
          M_Control(h, s, mt, mn)
    \/ M_Loop1End \/ M_Loop1Spin \/ M_Reject \/ M_Accept \/ M_Loop2Spin
    \/ M_Lock \/ M_Insert

(* -------------------------------- clock -------------------------------- *)

\* One second passes.
Tick ==
    /\ now < StartTime + MaxTicks
    /\ now' = now + 1
    /\ UNCHANGED <<alarms, alarm_list, current_alarm, mutex, workerVars,
                   mainVars, replaced, idleInserted, preempts>>

(* ---------------------------- specification ---------------------------- *)

\* Lines 37-40 and 249-259: the initial values of the globals; the alarm
\* thread has been created and the main thread is about to read a line.
Init ==
    /\ alarms = <<>>
    /\ alarm_list = <<>>
    /\ current_alarm = 0
    /\ now = StartTime
    /\ mutex = "free"
    /\ wpc = "start"
    /\ walarm = NULL
    /\ wstatus = "ok"
    /\ output = <<>>
    /\ mpc = "read"
    /\ malarm = NoAlarm
    /\ mnext = NULL
    /\ shouldProceed = FALSE
    /\ diag = "none"
    /\ replaced = {}
    /\ idleInserted = {}
    /\ preempts = {}

Next == Main \/ Worker \/ Tick

Spec == Init /\ [][Next]_vars

(* ------------------------------- claims -------------------------------- *)

\* The expiry time of a live alarm.
TimeOf(a) == alarms[a].time

\* The alarms passed to alarm_insert so far.
Accepted == 1 .. Len(alarms)

\* The listed alarms.
Listed == Range(alarm_list)

\* The main thread is taking the step from pthread_mutex_lock to
\* pthread_mutex_unlock that calls alarm_insert; the alarm it inserts.
Inserting == mpc = "locked" /\ mpc' = "read"
NewAlarm == Len(alarms) + 1

\* The listed type A alarms with message number n.
Schedules(list, recs, n) ==
    {i \in 1 .. Len(list) : recs[list[i]].type = "A" /\ recs[list[i]].messageNumber = n}

\* C1.  Sort invariant: in every reachable state the list is non-decreasing
\* in expiry time from head to tail (so the head is the listed alarm with the
\* smallest expiry).  The code never leaves the order, not even in the
\* replacement branch, which writes no link of the list.
C1_Sorted ==
    \A i, j \in 1 .. Len(alarm_list) :
        i < j => TimeOf(alarm_list[i]) <= TimeOf(alarm_list[j])

\* C1 witness: the alarm thread has taken the head off the list and waits
\* for it, and the list holds alarms of different expiry times.
C1_Witness ==
    /\ wpc = "timed_wait"
    /\ Len(alarm_list) >= 2
    /\ TimeOf(alarm_list[1]) < TimeOf(alarm_list[Len(alarm_list)])

\* C2.  Uniqueness: for every message number the list holds at most one
\* type A alarm.
C2_Unique ==
    \A n \in Ids : Cardinality(Schedules(alarm_list, alarms, n)) <= 1

\* C3.  Replacement, not duplication: when a type A alarm is inserted while a
\* type A alarm with its message number is listed, after alarm_insert the
\* list holds exactly one type A alarm with that number, it is the new
\* alarm, it stands where the old one stood, and the old one is not listed.
C3_Replacement ==
    [][(/\ Inserting
        /\ malarm.type = "A"
        /\ Schedules(alarm_list, alarms, malarm.messageNumber) # {})
       => LET olds == Schedules(alarm_list, alarms, malarm.messageNumber)
              first == CHOOSE i \in olds : \A k \in olds : i <= k
          IN /\ Len(alarm_list') = Len(alarm_list)
             /\ alarm_list'[first] = NewAlarm
             /\ \A i \in olds : alarm_list[i] \notin Range(alarm_list')
      ]_vars

\* The alarm thread has been woken from its timed wait by a signal after an
\* alarm_insert lowered current_alarm below the time of the alarm it holds.
Preempted ==
    /\ wpc = "timed_woken"
    /\ wstatus = "ok"
    /\ current_alarm # 0
    /\ current_alarm < TimeOf(walarm)

\* C4.  Preemption: an alarm inserted with an earlier time than that of the
\* alarm X the thread waits for wakes the thread; the thread then leaves the
\* wait without printing X, X is back in the list, and the head of the list,
\* which the thread takes next, is due no later than the inserted alarm.
C4_Preemption ==
    [][/\ (/\ Inserting
           /\ wpc = "timed_wait"
           /\ now + malarm.seconds < TimeOf(walarm))
          => (wpc' = "timed_woken" /\ wstatus' = "ok")
       /\ (Preempted /\ wpc' # wpc)
          => /\ wpc' = "top"
             /\ walarm \notin Range(output')
             /\ walarm \in Range(alarm_list')
             /\ alarms'[Head(alarm_list')].time <= current_alarm
      ]_vars

\* C5.  No lost wakeup: an alarm inserted into the empty list while the
\* alarm thread is idle stays with the program until it is printed (it is in
\* the list, held by the thread, or printed), and is not printed before its
\* expiry time.
C5_NoLostWakeup ==
    \A a \in idleInserted :
        /\ a \in Listed \/ a = walarm \/ a \in Freed
        /\ (wpc = "fire" /\ a = walarm) => TimeOf(a) <= now

\* C6.  Ordering: when the alarm thread prints an alarm, no listed alarm is
\* due earlier than the printed one.
C6_FireOrder ==
    wpc = "fire" => \A q \in Listed : TimeOf(walarm) <= TimeOf(q)

\* Where the main thread reads the list in a validation loop.
Scanning == mpc \in {"loop1", "spin1", "loop2", "spin2"}

\* C7.  Lock discipline: a thread that reads or writes the list or
\* current_alarm holds alarm_mutex: the main thread in its validation loops
\* and in alarm_insert, the alarm thread outside its condition waits.
C7_LockDiscipline ==
    /\ (Scanning \/ mpc = "locked") => mutex = "main"
    /\ wpc \in {"top", "fire"} => mutex = "worker"

\* How many times alarm a was printed.
Fires(a) == Cardinality({i \in 1 .. Len(output) : output[i] = a})

\* The replacement branches taken on the listed alarm a for a new type A
\* alarm.
Supersessions(a) == {p \in replaced : p[1] = a /\ p[3] = "A"}

\* C8.  Exactly once: every alarm passed to alarm_insert is printed at most
\* once, superseded at most once, not both, and is never lost: it is in the
\* list, held by the alarm thread, printed or superseded.
C8_ExactlyOnce ==
    \A a \in Accepted :
        /\ Fires(a) + Cardinality(Supersessions(a)) <= 1
        /\ \/ a \in Listed
           \/ a = walarm
           \/ a \in Freed
           \/ Supersessions(a) # {}

\* C9.  Exclusive ownership: every alarm passed to alarm_insert and not yet
\* destroyed (printed and freed, or superseded) is either linked in the list
\* or held by the alarm thread, never both and never neither; a freed alarm
\* is not reachable from the list.
C9_Ownership ==
    /\ \A a \in Accepted :
          (a \notin Freed /\ Supersessions(a) = {})
             => (a \in Listed) # (a = walarm)
    /\ \A a \in Accepted :
          Cardinality({i \in 1 .. Len(alarm_list) : alarm_list[i] = a}) <= 1
    /\ Freed \cap Listed = {}

\* C10.  A superseded Schedule never fires: an alarm on which the
\* replacement branch was taken for a new type A alarm is never printed.
C10_SupersededSilent ==
    \A p \in replaced : p[3] = "A" => p[1] \notin Freed

\* The listed alarms of one type.
Queued(kind) == {a \in Listed : alarms[a].type = kind}

\* The two ends of the validation of a control request: "if (shouldProceed)"
\* goes on to lock the mutex and insert, its else branch frees the alarm.
Accepting == Scanning /\ mpc' = "lock"
Rejecting == Scanning /\ mpc' = "read"

\* What the specification requires of the list for a Cancel of message
\* number n, a Create_Thread of message type t and a Resume_Thread of
\* message type t to be accepted.
CancelOk(n) ==
    /\ Cardinality({a \in Queued("A") : alarms[a].messageNumber = n}) = 1
    /\ {a \in Queued("C") : alarms[a].messageNumber = n} = {}
CreateThreadOk(t) ==
    /\ Cardinality({a \in Queued("A") : alarms[a].messageType = t}) = 1
    /\ {a \in Queued("B") : alarms[a].messageType = t} = {}
ResumeOk(t) ==
    /\ Cardinality({a \in Queued("D") : alarms[a].messageType = t}) = 1
    /\ {a \in Queued("E") : alarms[a].messageType = t} = {}

\* C11.  Validation gating of Cancel: the validation of a type C alarm for
\* message number n ends in acceptance only when exactly one type A alarm
\* with number n and no type C alarm with number n is listed, and ends in
\* rejection only when that is not so (no such type A alarm, or a Cancel for
\* n already listed).
C11_CancelGating ==
    [][malarm.type = "C" =>
          /\ Accepting => CancelOk(malarm.messageNumber)
          /\ Rejecting => ~CancelOk(malarm.messageNumber)]_vars

\* C12.  Validation of Create_Thread: the validation of a type B alarm for
\* message type t ends in acceptance exactly when exactly one type A alarm
\* with type t and no type B alarm with type t is listed, and in rejection
\* otherwise.
C12_CreateThreadGating ==
    [][malarm.type = "B" =>
          /\ Accepting => CreateThreadOk(malarm.messageType)
          /\ Rejecting => ~CreateThreadOk(malarm.messageType)]_vars

\* C13.  Validation of Resume_Thread: the validation of a type E alarm for
\* message type t ends in acceptance exactly when exactly one type D alarm
\* with type t and no type E alarm with type t is listed, and in rejection
\* otherwise.
C13_ResumeGating ==
    [][malarm.type = "E" =>
          /\ Accepting => ResumeOk(malarm.messageType)
          /\ Rejecting => ~ResumeOk(malarm.messageType)]_vars

\* C14.  Rejection leaves state unchanged: the step in which the validation
\* of a control request ends in rejection changes neither the list (its
\* alarms and their order), nor current_alarm, nor wakes the alarm thread.
C14_RejectionFrame ==
    [][Rejecting =>
          UNCHANGED <<alarm_list, alarms, current_alarm, wpc, wstatus>>]_vars

\* A request was rejected while the alarm thread was in its timed wait,
\* current_alarm being set.
C14_Witness ==
    /\ diag = "rejected"
    /\ wpc = "timed_wait"
    /\ current_alarm # 0

\* The test of the validation loop the main thread is in, on the alarm that
\* `next` points to.
LoopTest ==
    IF mpc \in {"loop1", "spin1"} THEN Loop1Test(malarm, alarms[mnext])
                                  ELSE Loop2Test(malarm, alarms[mnext])

\* C15.  Validation always terminates: a validation loop never runs on an
\* alarm on which it cannot end.  The loops never advance `next` and nothing
\* writes the fields they test, so a loop whose test is false on a live
\* alarm repeats that test for as long as the alarm lives: termination
\* requires that whenever the main thread is in a loop with a live `next`,
\* the loop's test holds.
C15_ValidationTerminates ==
    (Scanning /\ mnext # NULL /\ mnext \notin Freed) => LoopTest

\* C16.  Malformed input builds no request: a line with a digit head whose
\* arguments do not parse and a line with an unknown keyword leave the list
\* and current_alarm unchanged and the main thread at the next read; and no
\* alarm of type B to E, which main builds only from a control line on which
\* sscanf converted nothing, is passed to alarm_insert.
C16_MalformedBuildsNothing ==
    [][/\ (mpc = "read" /\ diag' \in {"Bad command", "bad command"})
             => (UNCHANGED <<alarm_list, current_alarm>> /\ mpc' = "read")
       /\ Inserting => malarm.type = "A"]_vars

\* The alarm thread is in neither of its waits' aftermath nor printing: it
\* has not started, is at the top of its loop, or is in pthread_cond_wait
\* on the empty list (blocked or returning).
WorkerIdle == wpc \in {"start", "top", "cond_wait", "cond_woken"}

\* C17 as stated.  current_alarm is 0 whenever the alarm thread is idle
\* (blocked on the empty list or not yet committed to a wait) and is the
\* time of the popped alarm whenever the thread sleeps in its timed wait.
C17_MarkerAsStated ==
    /\ WorkerIdle => current_alarm = 0
    /\ wpc = "timed_wait" => current_alarm = TimeOf(walarm)

\* C17.  current_alarm is 0 whenever the alarm thread is blocked in
\* pthread_cond_wait on the empty list with no signal pending, and is the
\* time of the popped alarm whenever the thread is blocked in its timed
\* wait.  (Between an alarm_insert that wrote current_alarm and the thread's
\* next wait, current_alarm is the time that alarm_insert stored.)
C17_MarkerMeaning ==
    /\ wpc = "cond_wait" => current_alarm = 0 /\ alarm_list = <<>>
    /\ wpc = "timed_wait" => current_alarm = TimeOf(walarm)

\* The thread sleeps on an alarm that was inserted while it was blocked on
\* the empty list: current_alarm went from 0 to the alarm's time.
C17_Witness ==
    /\ wpc = "timed_wait"
    /\ walarm \in idleInserted
    /\ current_alarm = TimeOf(walarm)

\* Lines 166-167: the step in which the alarm thread puts the held alarm
\* back with alarm_insert.
Requeuing == wpc = "timed_woken" /\ wpc' = "top"

\* The alarm thread is blocked on alarm_cond.
Blocked == wpc \in {"cond_wait", "timed_wait"}

\* C18.  Wake decision: a call of alarm_insert for an alarm due at t sets
\* current_alarm to t and signals alarm_cond if current_alarm was 0 or t is
\* strictly earlier than current_alarm, and otherwise leaves current_alarm
\* as it was and sends no signal.  The signal shows in the model as the
\* blocked alarm thread leaving its wait in the same step; a call by the
\* alarm thread itself (the requeue) finds no thread blocked.
C18_WakeDecision ==
    [][/\ Inserting =>
             LET t == now + malarm.seconds
                 wake == current_alarm = 0 \/ t < current_alarm
             IN /\ current_alarm' = IF wake THEN t ELSE current_alarm
                /\ Blocked => ((wpc' # wpc) <=> wake)
                /\ ~Blocked => wpc' = wpc
       /\ Requeuing =>
             LET t == TimeOf(walarm)
                 wake == current_alarm = 0 \/ t < current_alarm
             IN current_alarm' = IF wake THEN t ELSE current_alarm]_vars

\* The thread was woken out of its timed wait by the insertion of an earlier
\* alarm (current_alarm is below the held alarm's time), and another alarm
\* has been inserted since without a signal.
C18_Witness ==
    /\ wpc = "timed_woken"
    /\ wstatus = "ok"
    /\ current_alarm # 0
    /\ current_alarm < TimeOf(walarm)
    /\ Len(alarm_list) >= 2

\* Two requests have been read that reached alarm_insert, and the main
\* thread is not working on a third.
OnlyTwo == Len(alarms) = 2 /\ malarm.type = "none"

Position(list, t) ==
    IF \E i \in 1 .. Len(list) : TimeOf(list[i]) >= t
    THEN CHOOSE i \in 1 .. Len(list) :
            /\ TimeOf(list[i]) >= t
            /\ \A j \in 1 .. i - 1 : TimeOf(list[j]) < t
    ELSE Len(list) + 1

\* The specification's replacement case: the alarm handed to alarm_insert is
\* a type A request and a type A request with its message number is listed.
ReplacementApplies(type, n) ==
    type = "A" /\ Schedules(alarm_list, alarms, n) # {}

\* C20.  Insert position: a call of alarm_insert to which no replacement
\* applies links the alarm immediately before the first listed alarm whose
\* time is greater than or equal to its own (before the older of equals), or
\* at the tail when there is none; the other alarms keep their order and the
\* list grows by one.  The calls are the main thread's insert and the alarm
\* thread's requeue.
C20_InsertPosition ==
    [][/\ (Inserting /\ ~ReplacementApplies(malarm.type, malarm.messageNumber))
             => alarm_list' = InsertBefore(alarm_list,
                                  Position(alarm_list, now + malarm.seconds),
                                  NewAlarm)
       /\ (Requeuing /\ ~ReplacementApplies(alarms[walarm].type,
                                           alarms[walarm].messageNumber))
             => alarm_list' = InsertBefore(alarm_list,
                                  Position(alarm_list, TimeOf(walarm)),
                                  walarm)]_vars

\* C21.  Replacement applies only to incoming Schedule requests: the
\* replacement branch of alarm_insert is never taken for an alarm of type B
\* to E; such an alarm is linked into the list by its time.
C21_ReplacementOnlyForSchedule ==
    \A p \in replaced : p[3] = "A"

\* C22.  No early fire: the alarm thread prints and frees an alarm only when
\* the clock has reached the alarm's time, also after a wait that a signal
\* ended early.
C22_NoEarlyFire ==
    [][output' # output => TimeOf(walarm) <= now]_vars

\* An alarm whose timed wait was ended early by the insertion of an earlier
\* alarm has been printed.
C22_Witness ==
    \E p \in preempts : p[1] \in Freed

\* The alarm thread is inside pthread_cond_timedwait: blocked, or woken and
\* not yet holding the mutex again.
InTimedWait == wpc \in {"timed_wait", "timed_woken"}

SpuriousWake ==
    /\ wpc = "timed_woken"
    /\ wstatus = "ok"
    /\ current_alarm = TimeOf(walarm)

\* C24.  Spurious wake is harmless: when the timed wait returns without a
\* timeout and current_alarm is still the held alarm's time, the thread's
\* next step is to wait again on the same alarm with the same time; it
\* neither prints nor requeues the alarm and leaves the list as it is.
C24_SpuriousWakeHarmless ==
    [][(SpuriousWake /\ wpc' # wpc) =>
          /\ wpc' = "timed_wait"
          /\ UNCHANGED <<walarm, alarms, alarm_list, current_alarm,
                         output>>]_vars

\* The timed wait has returned without a timeout with current_alarm
\* unchanged, an alarm having been inserted behind the held one.
C24_Witness ==
    /\ SpuriousWake
    /\ alarm_list # <<>>

====
